---- MODULE Spec2Model ----
(***************************************************************************)
(* The job lifecycle controller of src/src/App.tsx (the App component):    *)
(* URL validation, job submission, the polling effect with its cleanup,    *)
(* and the backend it talks to (POST /jobs, GET /jobs/{id}).               *)
(*                                                                         *)
(* Granularity.  JavaScript runs one event at a time.  One action of this  *)
(* model is one run of a handler up to its next await, together with the   *)
(* React commit it causes (state setters are batched, and the effect of    *)
(* lines 82-114 is cleaned up and re-run when jobId changed).  Network     *)
(* requests in flight are explicit: a request is issued, the backend       *)
(* answers it at some later point, and the answer is delivered at some     *)
(* still later point, in any order.                                        *)
(***************************************************************************)
EXTENDS Integers, Sequences, FiniteSets, Bags, TLC

\* ------------------------------------------------------------------ bounds
\* Creation requests issued in one run (job ids are 1..MaxSubmits).
MaxSubmits == 2
\* Poll requests in flight at the same time.
MaxPolls == 2
\* Lexical pieces in a string given to validateGitHubUrl.
MaxUrlLen == 5

\* --------------------------------------------------------------- constants
NoId == 0
NoError == "null"
NoStatus == "none"
NoJob == [id |-> NoId, status |-> NoStatus]

\* type JobStatus (line 6)
JobStatus == {"pending", "running", "done", "error"}

MsgEmptyUrl == "Please enter a repository URL"
MsgInvalidUrl == "Please enter a valid GitHub repository URL"
MsgCreateFailed == "Failed to create job"
MsgUnexpected == "Unexpected error occurred"
\* err.message of the TypeError a failed fetch rejects with
MsgNetwork == "Failed to fetch"
\* err.message of the SyntaxError res.json() rejects with on a malformed body
MsgSyntax == "Unexpected token in JSON"
\* the detail field of an error body of the backend
ServerDetail == "rate limited"

\* ------------------------------------------------------------- the inputs
\* A user-supplied string, as the sequence of its lexical pieces.
UrlEmpty == <<>>
UrlRepo == <<"https:", "//", "github.com", "/", "a", "/", "b">>
UrlOtherHost == <<"https:", "//", "gitlab.com", "/", "x", "/", "y">>
\* What the user may type into the input.
Urls == {UrlEmpty, UrlRepo, UrlOtherHost}

Schemes == {"https:", "http:"}
HostNames == {"github.com", "gitlab.com"}
\* A host name as typed, possibly in upper case.
HostPieces == HostNames \cup {"GitHub.com"}
Slashes == {"/", "//"}
PortPiece == ":8080"
QueryPiece == "?q"
\* The pieces a host name is made of: names, and the one-letter segment
\* when it follows a name without a slash ("github.coma").
HostChars == HostPieces \cup {"a", "b", "x", "y"}

\* The length in characters of one lexical piece: "/" and a path segment
\* are one character, every other piece is longer.
PieceLen(p) ==
  CASE p \in {"/", "a", "b", "x", "y"} -> 1
    [] p \in {"//", "?q"} -> 2
    [] p = ":8080" -> 5
    [] p \in {"https:"} -> 6
    [] p \in {"http:"} -> 5
    [] OTHER -> 10

\* The URL parser lower-cases the host name.
LowerCase(h) == IF h = "GitHub.com" THEN "github.com" ELSE h

\* The first index from i on at which url holds a piece of S, or
\* Len(url) + 1.
RECURSIVE FirstIn(_, _, _)
FirstIn(url, i, S) ==
  IF i > Len(url) \/ url[i] \in S THEN i ELSE FirstIn(url, i + 1, S)

\* The first index from i on at which url holds no piece of S.
RECURSIVE FirstNotIn(_, _, _)
FirstNotIn(url, i, S) ==
  IF i > Len(url) \/ url[i] \notin S THEN i ELSE FirstNotIn(url, i + 1, S)

ParseFailure == [ok |-> FALSE, hostname |-> "", pathname |-> <<>>]

\* new URL(url), for the schemes http and https: it throws (ok = FALSE)
\* unless the string starts with a scheme; it skips the slashes that follow
\* the scheme, however many; the authority runs up to the next slash or
\* "?", and is a host name with an optional port; the host name is
\* lower-cased; the path runs up to the "?", and the path of a URL with no
\* path is "/".  An authority that is not a host name and a port (an empty
\* one, a second colon) makes it throw.
ParseUrl(url) ==
  IF Len(url) = 0 \/ url[1] \notin Schemes THEN ParseFailure
  ELSE
    LET hostStart == FirstNotIn(url, 2, Slashes)
        hostEnd == FirstIn(url, hostStart, Slashes \cup {QueryPiece})
        authority == SubSeq(url, hostStart, hostEnd - 1)
        hasPort == authority # <<>> /\ authority[Len(authority)] = PortPiece
        host == IF hasPort THEN SubSeq(authority, 1, Len(authority) - 1)
                           ELSE authority
        pathEnd == FirstIn(url, hostEnd, {QueryPiece})
        path == SubSeq(url, hostEnd, pathEnd - 1)
    IN  IF host = <<>> \/ \E i \in 1..Len(host) : host[i] \notin HostChars
          THEN ParseFailure
          ELSE [ok |-> TRUE,
                hostname |-> IF Len(host) = 1 THEN LowerCase(host[1])
                                              ELSE "github.com.longer",
                pathname |-> IF path = <<>> THEN <<"/">> ELSE path]

RECURSIVE PathLength(_)
PathLength(path) ==
  IF path = <<>> THEN 0 ELSE PieceLen(Head(path)) + PathLength(Tail(path))

validateHostOnly(url) == ParseUrl(url).ok /\ ParseUrl(url).hostname = "github.com"
validateGitHubUrl(url) ==
  LET urlObj == ParseUrl(url)
  IN  IF urlObj.ok
        THEN urlObj.hostname = "github.com" /\ PathLength(urlObj.pathname) > 1
        ELSE FALSE

\* ---------------------------------------------------------------- state
VARIABLES
  mounted,            \* the component is mounted (not torn down)
  repoUrl,            \* useState("")               line 17
  jobId,              \* useState(null)             line 18  (currentJobId)
  job,                \* useState(null)             line 19  (lastKnownJob)
  loading,            \* useState(false)            line 20  (submissionInFlight)
  error,              \* useState(null)             line 21  (lastError)
  abortControllerRef, \* useRef(null)               line 22: the request it belongs to
  timers,             \* the jobs whose setInterval timer is active (line 87)
  posts,              \* POST /jobs requests in flight
  polls,              \* GET /jobs/{id} requests in flight (a bag)
  backend,            \* the backend's status of each job it created
  nextSeq,            \* the next creation request (and job id)
  uncaught,           \* an exception escaped a handler
  canceled,           \* history: jobs whose polling effect was cleaned up
  polled,             \* history: jobs with a poll response applied
  terminalSeen,       \* history: jobs with a terminal poll response applied
  lastEvent           \* history: the step just taken ("pollFailed": console.error
                      \* was called, line 105)

vars == <<mounted, repoUrl, jobId, job, loading, error, abortControllerRef,
          timers, posts, polls, backend, nextSeq, uncaught,
          canceled, polled, terminalSeen, lastEvent>>

JobIds == 1..MaxSubmits

Event(kind, id) == [kind |-> kind, id |-> id]

Init ==
  /\ mounted = TRUE
  /\ repoUrl = UrlEmpty
  /\ jobId = NoId
  /\ job = NoJob
  /\ loading = FALSE
  /\ error = NoError
  /\ abortControllerRef = NoId
  /\ timers = {}
  /\ posts = {}
  /\ polls = EmptyBag
  /\ backend = [j \in JobIds |-> NoStatus]
  /\ nextSeq = 1
  /\ uncaught = FALSE
  /\ canceled = {}
  /\ polled = {}
  /\ terminalSeen = {}
  /\ lastEvent = Event("init", NoId)

\* ------------------------------------------------------------- responses
\* A response (or failure) of a request: kind is "none" while the backend has
\* not answered, "ok" for a 2xx with a Job record, "http" for a non-2xx,
\* "net" for a network failure, "malformed" for a 2xx whose body is not JSON,
\* "abort" once the request's AbortSignal fired.
Resp(kind, status, detail) == [kind |-> kind, status |-> status, detail |-> detail]
NoResp == Resp("none", NoStatus, NoError)
AbortResp == Resp("abort", NoStatus, NoError)

\* What the backend may answer to POST /jobs once it has created job id.
CreateAnswers ==
  {Resp("ok", s, NoError) : s \in JobStatus}
\* ... and what it may answer without creating a job.
CreateFailures ==
  {Resp("http", NoStatus, ServerDetail), Resp("http", NoStatus, NoError),
   Resp("net", NoStatus, NoError), Resp("malformed", NoStatus, NoError)}
PollFailures ==
  {Resp("http", NoStatus, NoError), Resp("net", NoStatus, NoError)}

IsTerminal(status) == status = "done" \/ status = "error"

\* ------------------------------------------------- the polling effect
\* The cleanup of the effect of job j (lines 110-113): abortController.abort()
\* rejects every fetch of that effect that is still in flight, whether the
\* backend has answered it or not, with an AbortError.
NoAbortCleanupPolls(ps, j) == ps
EffectCleanupPolls(ps, j) ==
  LET Aborted(p) == IF p.job = j THEN [p EXCEPT !.resp = AbortResp] ELSE p
  IN  BagOfAll(Aborted, ps)

\* The timers after a commit that took jobId from old to new (lines 82-87,
\* 110-111): a changed dependency clears the timer of the old effect
\* (clearInterval in its cleanup) and, when the new jobId is set, the new
\* effect starts one (setInterval).
LeakyEffectTimers(old, new, cur) ==
  IF old = new THEN cur ELSE cur \cup (IF new # NoId THEN {new} ELSE {})
EffectTimers(old, new, cur) ==
  IF old = new THEN cur
  ELSE (cur \ {old}) \cup (IF new # NoId THEN {new} ELSE {})

\* The commit of a render in which jobId became new: the effect's cleanup
\* for the old jobId, then the effect for the new one.
CommitEffect(new) ==
  /\ timers' = EffectTimers(jobId, new, timers)
  /\ polls' = IF jobId # new /\ jobId # NoId
                THEN EffectCleanupPolls(polls, jobId) ELSE polls
  /\ canceled' = IF jobId # new /\ jobId # NoId
                   THEN canceled \cup {jobId} ELSE canceled

\* ------------------------------------------------------------- handlers
\* onChange of the input (line 150).  The input is disabled while loading
\* (line 151) when the form is what calls the controller.
SetRepoUrl(gated, u) ==
  /\ mounted
  /\ gated => ~loading
  /\ repoUrl # u
  /\ repoUrl' = u
  /\ lastEvent' = Event("setRepoUrl", NoId)
  /\ UNCHANGED <<mounted, jobId, job, loading, error, abortControllerRef,
                 timers, posts, polls, backend, nextSeq,
                 uncaught, canceled, polled, terminalSeen>>

\* The error handleSubmit sets before any request (lines 39-47), or NoError.
EmptyCheckOnly(url) == IF url = UrlEmpty THEN MsgEmptyUrl ELSE NoError
ValidationError(url) ==
  IF url = UrlEmpty THEN MsgEmptyUrl
  ELSE IF ~validateGitHubUrl(url) THEN MsgInvalidUrl
  ELSE NoError

\* handleSubmit up to its await (lines 33-58).  The submit button is
\* disabled while loading (line 160) when the form is what calls it.
HandleSubmit(gated) ==
  /\ mounted
  /\ gated => ~loading
  /\ jobId' = NoId
  /\ job' = NoJob
  /\ CommitEffect(NoId)
  /\ IF ValidationError(repoUrl) # NoError
       THEN /\ error' = ValidationError(repoUrl)
            /\ lastEvent' = Event("submitRejected", NoId)
            /\ UNCHANGED <<loading, abortControllerRef, posts, nextSeq>>
       ELSE /\ nextSeq <= MaxSubmits
            /\ error' = NoError
            /\ loading' = TRUE
            /\ abortControllerRef' = nextSeq
            /\ posts' = posts \cup {[seq |-> nextSeq, resp |-> NoResp]}
            /\ nextSeq' = nextSeq + 1
            /\ lastEvent' = Event("submit", nextSeq)
  /\ UNCHANGED <<mounted, repoUrl, backend, uncaught, polled, terminalSeen>>

\* The backend answers a creation request: it creates the job, whose id is
\* unique, or it fails.
ServerCreate(r, a) ==
  /\ r \in posts /\ r.resp = NoResp
  /\ posts' = (posts \ {r}) \cup {[r EXCEPT !.resp = a]}
  /\ backend' = IF a.kind = "ok" THEN [backend EXCEPT ![r.seq] = a.status]
                                 ELSE backend
  /\ lastEvent' = Event("serverCreate", NoId)
  /\ UNCHANGED <<mounted, repoUrl, jobId, job, loading, error, abortControllerRef,
                 timers, polls, nextSeq, uncaught, canceled,
                 polled, terminalSeen>>

\* The message the catch of handleSubmit stores for a failed creation
\* (lines 60-63, 68-75), or NoError when it stores none (an AbortError).
IgnoreDetailMessage(resp) ==
  IF resp.kind = "abort" THEN NoError ELSE MsgCreateFailed
CreateErrorMessage(resp) ==
  CASE resp.kind = "http" -> IF resp.detail # NoError THEN resp.detail
                                                      ELSE MsgCreateFailed
    [] resp.kind = "net" -> MsgNetwork
    [] resp.kind = "malformed" -> MsgSyntax
    [] resp.kind = "abort" -> NoError
    [] OTHER -> MsgUnexpected

\* The Job record a 2xx answer to request seq carries (line 65).
CreatedJobPending(seq, resp) == [id |-> seq, status |-> "pending"]
CreatedJob(seq, resp) == [id |-> seq, status |-> resp.status]

\* loading after the finally of handleSubmit (lines 76-77): false, however
\* the request ended.
LoadingStuckOnFailure(resp) == resp.kind # "ok"
LoadingAfterResponse(resp) == FALSE

\* handleSubmit from its await on (lines 60-79): the response of creation
\* request r is delivered.  State setters of an unmounted component do
\* nothing; the ref is written all the same.
PostResponse(r) ==
  /\ r \in posts /\ r.resp # NoResp
  /\ posts' = posts \ {r}
  /\ abortControllerRef' = NoId
  /\ lastEvent' = Event(IF r.resp.kind = "ok" THEN "created" ELSE "createFailed", r.seq)
  /\ IF mounted
       THEN /\ loading' = LoadingAfterResponse(r.resp)
            /\ IF r.resp.kind = "ok"
                 THEN /\ jobId' = r.seq
                      /\ job' = CreatedJob(r.seq, r.resp)
                      /\ CommitEffect(r.seq)
                      /\ UNCHANGED error
                 ELSE /\ error' = IF CreateErrorMessage(r.resp) # NoError
                                    THEN CreateErrorMessage(r.resp) ELSE error
                      /\ UNCHANGED <<jobId, job, timers, polls, canceled>>
       ELSE UNCHANGED <<loading, jobId, job, error, timers, polls, canceled>>
  /\ UNCHANGED <<mounted, repoUrl, backend, nextSeq, uncaught, polled,
                 terminalSeen>>

\* One tick of the timer of job j (lines 87-91): the callback issues a GET
\* for the effect's jobId, whether or not an earlier GET is still in flight.
Tick(j) ==
  /\ j \in timers
  /\ BagCardinality(polls) < MaxPolls
  /\ polls' = polls (+) SetToBag({[job |-> j, resp |-> NoResp]})
  /\ lastEvent' = Event("tick", j)
  /\ UNCHANGED <<mounted, repoUrl, jobId, job, loading, error, abortControllerRef,
                 timers, posts, backend, nextSeq, uncaught,
                 canceled, polled, terminalSeen>>

\* What the backend may answer to GET /jobs/{j}.
PollAnswers(j) == {Resp("ok", backend[j], NoError)} \cup PollFailures

\* The backend answers poll request p (unless the request was aborted).
ServerPoll(p, a) ==
  /\ BagIn(p, polls) /\ p.resp = NoResp
  /\ polls' = (polls (-) SetToBag({p})) (+) SetToBag({[p EXCEPT !.resp = a]})
  /\ lastEvent' = Event("serverPoll", NoId)
  /\ UNCHANGED <<mounted, repoUrl, jobId, job, loading, error, abortControllerRef,
                 timers, posts, backend, nextSeq, uncaught,
                 canceled, polled, terminalSeen>>

\* The timers after a successful poll response of job j with this status
\* was applied (lines 100-102): clearInterval on a terminal status.
StopOnDoneOnly(status, j, cur) == IF status = "done" THEN cur \ {j} ELSE cur
TimersAfterPoll(status, j, cur) == IF IsTerminal(status) THEN cur \ {j} ELSE cur

\* The error state after the catch of the interval callback (lines 103-107):
\* a failure that is not an AbortError is written to the console, and error
\* is not touched.
PollCatchSetsError(resp, cur) == IF resp.kind = "abort" THEN cur ELSE MsgNetwork
PollCatchAbortAsError(resp, cur) == IF resp.kind = "abort" THEN MsgNetwork ELSE cur
PollCatchError(resp, cur) == cur

\* The timers after the catch of the interval callback (lines 103-107): the
\* catch clears no interval, so the timer of job j keeps ticking.
StopOnPollFailure(resp, j, cur) == IF resp.kind = "abort" THEN cur ELSE cur \ {j}
TimersAfterPollFailure(resp, j, cur) == cur

\* What the catch does with the failure (lines 104-106): an AbortError is
\* dropped, anything else goes to console.error.
PollCatchEvent(resp) == IF resp.kind = "abort" THEN "pollAborted" ELSE "pollFailed"

\* The interval callback from its await on (lines 93-107): the response of
\* poll request p is delivered.
PollResponse(p) ==
  /\ BagIn(p, polls) /\ p.resp # NoResp
  /\ polls' = polls (-) SetToBag({p})
  /\ IF p.resp.kind = "ok"
       THEN /\ job' = IF mounted THEN [id |-> p.job, status |-> p.resp.status] ELSE job
            /\ timers' = TimersAfterPoll(p.resp.status, p.job, timers)
            /\ polled' = polled \cup {p.job}
            /\ terminalSeen' = IF IsTerminal(p.resp.status)
                                 THEN terminalSeen \cup {p.job} ELSE terminalSeen
            /\ lastEvent' = Event("pollApplied", p.job)
            /\ UNCHANGED error
       ELSE /\ error' = PollCatchError(p.resp, error)
            /\ timers' = TimersAfterPollFailure(p.resp, p.job, timers)
            /\ lastEvent' = Event(PollCatchEvent(p.resp), p.job)
            /\ UNCHANGED <<job, polled, terminalSeen>>
  /\ UNCHANGED <<mounted, repoUrl, jobId, loading, abortControllerRef, posts,
               backend, nextSeq, uncaught, canceled>>

\* The consuming context is torn down: the component unmounts and the
\* effect's cleanup runs (lines 110-113).
Unmount ==
  /\ mounted
  /\ mounted' = FALSE
  /\ timers' = EffectTimers(jobId, NoId, timers)
  /\ polls' = IF jobId # NoId THEN EffectCleanupPolls(polls, jobId) ELSE polls
  /\ canceled' = IF jobId # NoId THEN canceled \cup {jobId} ELSE canceled
  /\ lastEvent' = Event("unmount", NoId)
  /\ UNCHANGED <<repoUrl, jobId, job, loading, error, abortControllerRef, posts,
                 backend, nextSeq, uncaught, polled, terminalSeen>>

\* The backend works on a job: its status only moves forward.
NextStatus(status) ==
  CASE status = "pending" -> {"running"}
    [] status = "running" -> {"done", "error"}
    [] OTHER -> {}

BackendAdvance(j, s) ==
  /\ s \in NextStatus(backend[j])
  /\ backend' = [backend EXCEPT ![j] = s]
  /\ lastEvent' = Event("backend", NoId)
  /\ UNCHANGED <<mounted, repoUrl, jobId, job, loading, error, abortControllerRef,
                 timers, posts, polls, nextSeq, uncaught,
                 canceled, polled, terminalSeen>>

\* ------------------------------------------------------- specifications
Environment ==
  \/ \E r \in posts : \E a \in CreateAnswers \cup CreateFailures : ServerCreate(r, a)
  \/ \E r \in posts : PostResponse(r)
  \/ \E j \in JobIds : Tick(j)
  \/ \E p \in BagToSet(polls) : \E a \in PollAnswers(p.job) : ServerPoll(p, a)
  \/ \E p \in BagToSet(polls) : PollResponse(p)
  \/ Unmount
  \/ \E j \in JobIds : \E s \in JobStatus : BackendAdvance(j, s)

\* The App as rendered: the form calls the controller, and its input and
\* its submit button are disabled while loading (lines 151, 160).
Next ==
  \/ \E u \in Urls : SetRepoUrl(TRUE, u)
  \/ HandleSubmit(TRUE)
  \/ Environment

Spec == Init /\ [][Next]_vars

\* The controller called directly: submit may be called at any time, also
\* while a creation request is outstanding.
NextDirect ==
  \/ \E u \in Urls : SetRepoUrl(FALSE, u)
  \/ HandleSubmit(FALSE)
  \/ Environment

SpecDirect == Init /\ [][NextDirect]_vars

\* ---------------------------------------------------------------- claims
CreationDelivered(e) == e.kind \in {"created", "createFailed"}
PollDelivered(e) == e.kind \in {"pollApplied", "pollFailed", "pollAborted"}

\* C1: when submit is called again while a creation request is outstanding,
\* the response of the earlier call, delivered after the later call was
\* made, changes none of currentJobId, lastKnownJob, submissionInFlight and
\* lastError, and a tracked job is always the one the latest call created.
C1_StaleCreationDiscarded ==
  [][/\ (mounted /\ CreationDelivered(lastEvent') /\ lastEvent'.id < nextSeq - 1)
          => UNCHANGED <<jobId, job, loading, error>>
     /\ (jobId' # NoId => jobId' = nextSeq' - 1)]_vars

\* C2: once the tracking of a job is canceled (a new submit, or teardown), no
\* response of a poll request of that job changes lastKnownJob, currentJobId
\* or lastError (or the timer), and no further poll request is issued for
\* that job.
C2_CanceledPollsNeverApplied ==
  [][/\ (PollDelivered(lastEvent') /\ lastEvent'.id \in canceled)
          => UNCHANGED <<job, jobId, error, timers>>
     /\ (lastEvent'.kind = "tick" => lastEvent'.id \notin canceled)]_vars

\* C2's case: the response of a poll of a canceled job, which the backend
\* had answered or not, has just been delivered to the controller, and the
\* controller is still mounted (the cancellation was a new submit).
C2_Witness ==
  /\ lastEvent.kind = "pollAborted"
  /\ lastEvent.id \in canceled
  /\ mounted
  /\ jobId # lastEvent.id

\* C3: after a poll response with status done or error was received for a
\* job, no further GET /jobs/{id} is issued for that job.
C3_NoFetchAfterTerminal ==
  [][lastEvent'.kind = "tick" => lastEvent'.id \notin terminalSeen]_vars

\* C3's case: a terminal poll response has just been applied to the tracked
\* job, while the job is still the current one.
C3_Witness ==
  /\ lastEvent.kind = "pollApplied"
  /\ mounted
  /\ jobId = lastEvent.id
  /\ jobId \in terminalSeen
  /\ job.status = "error"
  /\ timers = {}

SubmitCalled(e) == e.kind \in {"submit", "submitRejected"}

\* C4: a call to submit with an empty URL, or one that fails validation,
\* issues no request, sets lastError to a validation message, leaves
\* submissionInFlight false and leaves no job tracked.
C4_InvalidUrlNoRequest ==
  [][(SubmitCalled(lastEvent') /\ (repoUrl = UrlEmpty \/ ~validateGitHubUrl(repoUrl)))
       => /\ posts' = posts
          /\ nextSeq' = nextSeq
          /\ BagCardinality(polls') = BagCardinality(polls)
          /\ error' \in {MsgEmptyUrl, MsgInvalidUrl}
          /\ loading' = FALSE
          /\ jobId' = NoId /\ job' = NoJob /\ timers' = {}]_vars

\* C4's case: submit was just called with a gitlab.com URL while a job was
\* tracked.
C4_Witness ==
  /\ lastEvent.kind = "submitRejected"
  /\ repoUrl = UrlOtherHost
  /\ error = MsgInvalidUrl
  /\ canceled # {}
  /\ posts = {}

FallbackMessages == {MsgCreateFailed, MsgNetwork, MsgSyntax, MsgUnexpected}

\* C5: when the creation request fails, lastError is the server's detail
\* when the response carries one and a fallback message otherwise,
\* currentJobId and lastKnownJob stay none, no timer is started and
\* submissionInFlight is false again.
C5_CreationFailure ==
  [][(mounted /\ lastEvent'.kind = "createFailed")
       => \E r \in posts :
            /\ posts' = posts \ {r}
            /\ r.resp.kind \in {"http", "net", "malformed"}
            /\ r.resp.detail # NoError => error' = r.resp.detail
            /\ r.resp.detail = NoError => error' \in FallbackMessages
            /\ (r.resp.kind = "http" /\ r.resp.detail = NoError)
                  => error' = MsgCreateFailed
            /\ jobId' = NoId /\ job' = NoJob /\ timers' = {}
            /\ loading' = FALSE]_vars

\* C5's case: the creation request has just failed with a 500 whose body
\* carries a detail.
C5_Witness ==
  /\ lastEvent.kind = "createFailed"
  /\ mounted
  /\ error = ServerDetail
  /\ ~loading
  /\ jobId = NoId /\ job = NoJob /\ timers = {}

\* C6: when the creation request succeeds with record J, J is lastKnownJob,
\* J.id is currentJobId, lastError is none, submissionInFlight is false and
\* a timer for J.id is started; every later successful poll response
\* replaces lastKnownJob with the record it returned.
C6_CreationSuccess ==
  [][/\ (mounted /\ lastEvent'.kind = "created")
          => \E r \in posts :
               /\ posts' = posts \ {r}
               /\ r.resp.kind = "ok"
               /\ backend[r.seq] # NoStatus
               /\ job' = [id |-> r.seq, status |-> r.resp.status]
               /\ jobId' = r.seq
               /\ error' = NoError
               /\ loading' = FALSE
               /\ timers' = {r.seq}
     /\ lastEvent'.kind = "pollApplied"
          => \E p \in BagToSet(polls) :
               /\ polls' = polls (-) SetToBag({p})
               /\ p.resp.kind = "ok"
               /\ job' = [id |-> p.job, status |-> p.resp.status]]_vars

\* C6's case: a poll response has just replaced the record the creation
\* response had stored, and the timer of the job is running.
C6_Witness ==
  /\ lastEvent.kind = "pollApplied"
  /\ mounted
  /\ jobId = lastEvent.id
  /\ job = [id |-> jobId, status |-> "running"]
  /\ timers = {jobId}
  /\ ~loading /\ error = NoError

LivePolls == {p \in BagToSet(polls) : p.resp.kind # "abort"}

\* C7: at most one polling timer is active; the timer of a previously
\* tracked job is stopped while the creation request of a new submission is
\* outstanding; no two jobs are polled concurrently.
C7_OnePollingTimer ==
  /\ Cardinality(timers) <= 1
  /\ timers \subseteq {jobId}
  /\ posts # {} => timers = {}
  /\ \A p \in LivePolls : p.job = jobId

\* C7's case: a job was being polled when submit was called again; its
\* timer is stopped, its request in flight is aborted, and the new creation
\* request is outstanding.
C7_Witness ==
  /\ mounted
  /\ posts # {}
  /\ canceled \ terminalSeen # {}
  /\ timers = {}
  /\ polls # EmptyBag

\* C8 as stated: a polling timer is active only in TRACKING, that is only
\* while currentJobId is set and the last known status of that job is
\* pending or running; none is active in IDLE, SUBMITTING and TERMINAL, also
\* when the creation response itself carries a terminal status.
C8_TimerOnlyWhileTracking ==
  timers # {} =>
    /\ jobId # NoId /\ timers = {jobId}
    /\ ~loading
    /\ job.id = jobId /\ job.status \in {"pending", "running"}

\* C8 as amended: a polling timer is active only while currentJobId is set,
\* no submission is in flight, and the last known status of that job is
\* pending or running or is the status of the creation response, no poll
\* response having been applied yet; once a poll response showed done or
\* error, and in IDLE and SUBMITTING, no timer is active.
C8_TimerUntilTerminalPoll ==
  /\ timers # {} =>
       /\ jobId # NoId /\ timers = {jobId}
       /\ ~loading
       /\ job.id = jobId
       /\ job.status \in {"pending", "running"} \/ jobId \notin polled
  /\ \A j \in terminalSeen : j \notin timers

\* C8's case: the creation response carried a terminal status, and the
\* timer of the job is running.
C8_Witness ==
  /\ mounted
  /\ jobId # NoId
  /\ job = [id |-> jobId, status |-> "done"]
  /\ jobId \notin polled
  /\ timers = {jobId}

\* C9: at most one creation request and at most one polling request are in
\* flight: a tick issues no GET while the response of the previous poll is
\* outstanding.
C9_OneRequestInFlight ==
  /\ Cardinality(posts) <= 1
  /\ Cardinality(LivePolls) <= 1
  /\ \A p \in LivePolls : CopiesIn(p, polls) <= 1

\* C10 as stated: when a status fetch fails for a reason other than
\* cancellation, the failure is captured into lastError, and no exception
\* escapes the controller.
C10_PollFailureInLastError ==
  lastEvent.kind = "pollFailed" => (error # NoError /\ ~uncaught)

\* C10 as amended: when a status fetch fails for a reason other than
\* cancellation, the failure is caught and written to the console, lastError
\* is left as it was, and no exception escapes the controller.
C10_PollFailureOnlyLogged ==
  [][\A p \in BagToSet(polls) :
       (polls' = polls (-) SetToBag({p}) /\ p.resp.kind \in {"http", "net"})
         => /\ lastEvent' = Event("pollFailed", p.job)
            /\ error' = error
            /\ uncaught' = FALSE]_vars

\* C10's case: a status fetch of the tracked job has just failed.
C10_Witness ==
  /\ lastEvent.kind = "pollFailed"
  /\ mounted
  /\ jobId = lastEvent.id
  /\ timers = {jobId}
  /\ error = NoError

\* C11: a request that ends because it was aborted never sets lastError: a
\* step that delivers an AbortError leaves lastError as it was, and lastError
\* only ever becomes a message in a step that is a validation failure or a
\* failed creation.
C11_AbortNeverSetsError ==
  [][/\ lastEvent'.kind = "pollAborted" => error' = error
     /\ (error' # error /\ error' # NoError)
          => /\ lastEvent'.kind \in {"submitRejected", "createFailed"}
             /\ lastEvent'.kind = "createFailed"
                  => \E r \in posts : posts' = posts \ {r} /\ r.resp.kind # "abort"]_vars

\* C11's case: the poll of a superseded job has just ended with an
\* AbortError, and lastError still holds the validation message of the
\* submit that superseded it.
C11_Witness ==
  /\ lastEvent.kind = "pollAborted"
  /\ mounted
  /\ error = MsgInvalidUrl
  /\ jobId = NoId

\* One submission that succeeds, every poll request answered with the
\* job's record, no further submission and no teardown; the timer keeps
\* ticking, the backend keeps working and every response is delivered.
LiveNext ==
  \/ nextSeq = 1 /\ \E u \in Urls : SetRepoUrl(TRUE, u)
  \/ nextSeq = 1 /\ HandleSubmit(TRUE)
  \/ \E r \in posts : \E a \in CreateAnswers : ServerCreate(r, a)
  \/ \E r \in posts : PostResponse(r)
  \/ \E j \in JobIds : Tick(j)
  \/ \E p \in BagToSet(polls) : ServerPoll(p, Resp("ok", backend[p.job], NoError))
  \/ \E p \in BagToSet(polls) : PollResponse(p)
  \/ \E j \in JobIds : \E s \in JobStatus : BackendAdvance(j, s)

LiveFairness ==
  /\ WF_vars(\E r \in posts : \E a \in CreateAnswers : ServerCreate(r, a))
  /\ WF_vars(\E r \in posts : PostResponse(r))
  /\ WF_vars(\E j \in JobIds : Tick(j))
  /\ WF_vars(\E p \in BagToSet(polls) : ServerPoll(p, Resp("ok", backend[p.job], NoError)))
  /\ WF_vars(\E p \in BagToSet(polls) : PollResponse(p))
  /\ WF_vars(\E j \in JobIds : \E s \in JobStatus : BackendAdvance(j, s))

SpecLive == Init /\ [][LiveNext]_vars /\ LiveFairness

\* C12: after a successful submission, when the backend job reaches done or
\* error, every poll is answered and nothing supersedes the job, the
\* controller eventually shows that terminal status with the timer stopped,
\* and stays there.
C12_EventuallyTerminal ==
  (jobId # NoId) ~> [](IsTerminal(job.status) /\ job.id = jobId /\ timers = {})

\* ------------------------------------------------------------ C13
\* validateGitHubUrl as a pure function: the field holds any string of at
\* most MaxUrlLen pieces, and the form is submitted.
UrlPieces == {"https:", "//", "/", "a", QueryPiece, PortPiece} \cup HostPieces
UrlInputs == UNION {[1..n -> UrlPieces] : n \in 0..MaxUrlLen}

InitValidate ==
  /\ mounted = TRUE
  /\ repoUrl \in UrlInputs
  /\ jobId = NoId
  /\ job = NoJob
  /\ loading = FALSE
  /\ error = NoError
  /\ abortControllerRef = NoId
  /\ timers = {}
  /\ posts = {}
  /\ polls = EmptyBag
  /\ backend = [j \in JobIds |-> NoStatus]
  /\ nextSeq = 1
  /\ uncaught = FALSE
  /\ canceled = {}
  /\ polled = {}
  /\ terminalSeen = {}
  /\ lastEvent = Event("init", NoId)

NextValidate == HandleSubmit(TRUE)

SpecValidate == InitValidate /\ [][NextValidate]_vars

\* The strings that are an absolute http(s) URL, as the URL parser reads
\* one, with host github.com and a path longer than "/": a scheme, any run
\* of slashes, the host name in any case, an optional port, then a path
\* that is "//" or a slash followed by one more piece of path.
GitHubRepoUrl(url) ==
  \E i \in 2..Len(url) :
    /\ url[1] \in Schemes
    /\ \A k \in 2..(i - 1) : url[k] \in Slashes
    /\ url[i] \in {"github.com", "GitHub.com"}
    /\ \E p \in {i + 1, i + 2} :
         /\ p <= Len(url)
         /\ p = i + 2 => url[i + 1] = PortPiece
         /\ \/ url[p] = "//"
            \/ url[p] = "/" /\ p + 1 <= Len(url) /\ url[p + 1] # QueryPiece

\* C13: validateGitHubUrl returns true exactly for the strings that parse
\* as an absolute URL whose host is github.com and whose path is longer
\* than "/", and false for every other string, a string that does not parse
\* included; a submission is sent exactly for those strings.
C13_ValidateGitHubUrl ==
  /\ validateGitHubUrl(repoUrl) <=> GitHubRepoUrl(repoUrl)
  /\ lastEvent.kind = "submit" => GitHubRepoUrl(repoUrl)
  /\ lastEvent.kind = "submitRejected" => ~GitHubRepoUrl(repoUrl)

C13_Witness ==
  /\ lastEvent.kind = "submit"
  /\ repoUrl = <<"https:", "//", "GitHub.com", "/", "a">>
  /\ posts # {}

\* C14: a failed status fetch (non-2xx or network failure) does not end
\* tracking: the delivery of the failure leaves the timers, currentJobId and
\* lastKnownJob as they were, and when the job's timer was active the next
\* tick is free to issue another fetch for the same job.
C14_FailedPollKeepsTracking ==
  [][lastEvent'.kind = "pollFailed"
       => /\ timers' = timers /\ jobId' = jobId /\ job' = job
          /\ lastEvent'.id \in timers
               => /\ lastEvent'.id \in timers'
                  /\ BagCardinality(polls') < MaxPolls]_vars

C14_Witness ==
  /\ lastEvent.kind = "pollFailed" /\ mounted
  /\ jobId = lastEvent.id /\ timers = {jobId}
  /\ job.id = jobId /\ job.status = "running"
  /\ jobId \in polled

\* C15: with a backend whose status only moves forward, once lastKnownJob
\* shows a terminal status for a job, no later step makes it show a
\* non-terminal status for the same job.
C15_TerminalStaysTerminal ==
  [][(IsTerminal(job.status) /\ job'.id = job.id) => IsTerminal(job'.status)]_vars

\* C16: while the component is mounted, loading is true exactly when a
\* creation request is outstanding.
C16_LoadingIffOutstanding ==
  mounted => (loading <=> posts # {})

C16_Witness ==
  /\ lastEvent.kind = "createFailed" /\ lastEvent.id = 2
  /\ mounted /\ ~loading /\ posts = {}

\* C17: lastKnownJob and currentJobId are both none, or both set with
\* lastKnownJob.id = currentJobId; every call to submit resets both.
C17_JobMirrorsJobId ==
  /\ [](\/ jobId = NoId /\ job = NoJob
        \/ jobId # NoId /\ job.id = jobId)
  /\ [][SubmitCalled(lastEvent') => jobId' = NoId /\ job' = NoJob]_vars

C17_Witness ==
  /\ lastEvent.kind = "pollApplied" /\ mounted
  /\ jobId = 2 /\ job.id = 2 /\ 1 \in canceled

\* ------------------------------------------------- the earlier prototype
\* src/unnamed/part_000: the same component before validation and
\* AbortController were added.  jobStatus is the variable job; the variable
\* abortControllerRef is not used.
MsgPollFailed == "Failed to fetch job status"

\* handleSubmit up to its await (part_000 lines 21-31): no validation, and
\* jobId and jobStatus are left alone.  The button is disabled while loading
\* or while the field is empty (line 89).
ProtoHandleSubmit ==
  /\ mounted
  /\ ~loading /\ repoUrl # UrlEmpty
  /\ nextSeq <= MaxSubmits
  /\ error' = NoError
  /\ loading' = TRUE
  /\ posts' = posts \cup {[seq |-> nextSeq, resp |-> NoResp]}
  /\ nextSeq' = nextSeq + 1
  /\ lastEvent' = Event("submit", nextSeq)
  /\ UNCHANGED <<mounted, repoUrl, jobId, job, abortControllerRef, timers, polls,
                 backend, uncaught, canceled, polled, terminalSeen>>

\* The message the catch of handleSubmit stores (part_000 lines 33-35, 41).
ProtoCreateErrorMessage(resp) ==
  CASE resp.kind = "http" -> MsgCreateFailed
    [] resp.kind = "net" -> MsgNetwork
    [] OTHER -> MsgSyntax

\* The timers once jobId has changed from old to new (part_000 lines 48-51,
\* 71-72): the cleanup clears the old interval, and aborts nothing.
ProtoEffectTimers(old, new, cur) ==
  (cur \ {old}) \cup (IF new # NoId THEN {new} ELSE {})

\* handleSubmit from its await on (part_000 lines 33-44).
ProtoPostResponse(r) ==
  /\ r \in posts /\ r.resp # NoResp
  /\ posts' = posts \ {r}
  /\ lastEvent' = Event(IF r.resp.kind = "ok" THEN "created" ELSE "createFailed", r.seq)
  /\ IF mounted
       THEN /\ loading' = FALSE
            /\ IF r.resp.kind = "ok"
                 THEN /\ jobId' = r.seq
                      /\ job' = CreatedJob(r.seq, r.resp)
                      /\ timers' = ProtoEffectTimers(jobId, r.seq, timers)
                      /\ canceled' = IF jobId # NoId THEN canceled \cup {jobId}
                                                     ELSE canceled
                      /\ UNCHANGED error
                 ELSE /\ error' = ProtoCreateErrorMessage(r.resp)
                      /\ UNCHANGED <<jobId, job, timers, canceled>>
       ELSE UNCHANGED <<loading, jobId, job, error, timers, canceled>>
  /\ UNCHANGED <<mounted, repoUrl, abortControllerRef, polls, backend, nextSeq,
                 uncaught, polled, terminalSeen>>

\* The timers after a poll response of job j with this status was applied
\* (part_000 lines 61-64).
ProtoTimersAfterPoll(status, j, cur) ==
  IF status = "done" \/ status = "failed" THEN cur \ {j} ELSE cur

\* The message the catch of the interval callback stores (part_000 lines
\* 54-56, 66).
ProtoPollErrorMessage(resp) ==
  IF resp.kind = "http" THEN MsgPollFailed ELSE MsgNetwork

\* The interval callback from its await on (part_000 lines 53-68).  Nothing
\* cancels a request, so the callback of a cleared interval still runs; its
\* clearInterval is for its own interval.
ProtoPollResponse(p) ==
  /\ BagIn(p, polls) /\ p.resp # NoResp
  /\ polls' = polls (-) SetToBag({p})
  /\ IF p.resp.kind = "ok"
       THEN /\ job' = IF mounted THEN [id |-> p.job, status |-> p.resp.status] ELSE job
            /\ timers' = ProtoTimersAfterPoll(p.resp.status, p.job, timers)
            /\ polled' = polled \cup {p.job}
            /\ terminalSeen' = IF IsTerminal(p.resp.status)
                                 THEN terminalSeen \cup {p.job} ELSE terminalSeen
            /\ lastEvent' = Event("pollApplied", p.job)
            /\ UNCHANGED error
       ELSE /\ error' = IF mounted THEN ProtoPollErrorMessage(p.resp) ELSE error
            /\ timers' = timers \ {p.job}
            /\ lastEvent' = Event("pollFailed", p.job)
            /\ UNCHANGED <<job, polled, terminalSeen>>
  /\ UNCHANGED <<mounted, repoUrl, jobId, loading, abortControllerRef, posts,
               backend, nextSeq, uncaught, canceled>>

\* The component unmounts: the cleanup clears the interval (part_000 line 71).
ProtoUnmount ==
  /\ mounted
  /\ mounted' = FALSE
  /\ timers' = ProtoEffectTimers(jobId, NoId, timers)
  /\ canceled' = IF jobId # NoId THEN canceled \cup {jobId} ELSE canceled
  /\ lastEvent' = Event("unmount", NoId)
  /\ UNCHANGED <<repoUrl, jobId, job, loading, error, abortControllerRef, posts,
                 polls, backend, nextSeq, uncaught, polled, terminalSeen>>

ProtoNext ==
  \/ \E u \in Urls : SetRepoUrl(TRUE, u)
  \/ ProtoHandleSubmit
  \/ \E r \in posts : \E a \in CreateAnswers \cup CreateFailures : ServerCreate(r, a)
  \/ \E r \in posts : ProtoPostResponse(r)
  \/ \E j \in JobIds : Tick(j)
  \/ \E p \in BagToSet(polls) : \E a \in PollAnswers(p.job) : ServerPoll(p, a)
  \/ \E p \in BagToSet(polls) : ProtoPollResponse(p)
  \/ \E j \in JobIds : \E s \in JobStatus : BackendAdvance(j, s)
  \/ ProtoUnmount

SpecProto == Init /\ [][ProtoNext]_vars

\* C18: in the prototype, after a poll response with status done or error
\* was applied, the job's polling timer is cleared, and no tick issues a
\* fetch for a job whose terminal status was seen.
C18_ProtoStopsOnTerminal ==
  [][/\ (/\ lastEvent'.kind = "pollApplied"
         /\ BagCardinality(polls') < BagCardinality(polls)
         /\ lastEvent'.id \in terminalSeen' \ terminalSeen)
          => lastEvent'.id \notin timers'
     /\ (lastEvent'.kind = "tick" /\ BagCardinality(polls') > BagCardinality(polls))
          => lastEvent'.id \notin terminalSeen]_vars

\* C19: in the prototype, the response of a poll of a job that a later
\* successful submission has superseded, delivered while the component is
\* mounted, changes none of the job record, the error and the timers.
C19_ProtoLatePollDiscarded ==
  [][(/\ lastEvent'.kind \in {"pollApplied", "pollFailed"}
      /\ BagCardinality(polls') < BagCardinality(polls)
      /\ mounted /\ jobId # NoId /\ lastEvent'.id # jobId
      /\ lastEvent'.id \in canceled)
       => /\ job' = job /\ error' = error /\ timers' = timers]_vars

====
